---- MODULE Spec2Model ----
(***************************************************************************)
(* Banker's Algorithm simulation (src/src/main.rs): a shared SystemState   *)
(* behind one Mutex, one process_thread per process, safe_check as the     *)
(* safety oracle, request_resource / release_resource as the arbiter.      *)
(***************************************************************************)
EXTENDS Integers, FiniteSets, Sequences

\* ---------------------------------------------------------------- bounds
NumProcesses == 2
NumResources == 2
MaxUnits == 1

Procs == 0 .. (NumProcesses - 1)
Res == 0 .. (NumResources - 1)
Vectors == [Res -> 0 .. MaxUnits]

VARIABLES
    system_state,   \* the SystemState inside Arc<Mutex<..>>
    input,          \* the SystemState read_input returned (never changes)
    lock,           \* set of threads holding the Mutex guard
    pc,             \* position of each process_thread
    request,        \* each thread's local request vector
    granted,        \* each thread's result of request_resource
    entry,          \* the SystemState as it was when request_resource was entered
    main_pc         \* position of main

vars == <<system_state, input, lock, pc, request, granted, entry, main_pc>>

ZeroVec == [j \in Res |-> 0]

\* ------------------------------------------------------------ safe_check
Eligible(state, cloned_resource, i) ==
    \A j \in Res : state.need[i][j] <= cloned_resource[j]

\* a scan that marks eligible processes but never reclaims their allocation
RECURSIVE ScanPassNoReclaim(_, _, _, _, _)
ScanPassNoReclaim(state, cloned_resource, done_process, found, i) ==
    IF i >= NumProcesses
    THEN [cloned_resource |-> cloned_resource, done_process |-> done_process,
          found |-> found]
    ELSE IF ~done_process[i] /\ Eligible(state, cloned_resource, i)
         THEN ScanPassNoReclaim(state, cloned_resource,
                                [done_process EXCEPT ![i] = TRUE], TRUE, i + 1)
         ELSE ScanPassNoReclaim(state, cloned_resource, done_process, found, i + 1)

\* a scan that stops at the first eligible process of the pass
RECURSIVE ScanPassFirstOnly(_, _, _, _, _)
ScanPassFirstOnly(state, cloned_resource, done_process, found, i) ==
    IF i >= NumProcesses \/ found
    THEN [cloned_resource |-> cloned_resource, done_process |-> done_process,
          found |-> found]
    ELSE IF ~done_process[i] /\ Eligible(state, cloned_resource, i)
         THEN ScanPassFirstOnly(state,
                       [j \in Res |-> cloned_resource[j] + state.allocated[i][j]],
                       [done_process EXCEPT ![i] = TRUE], TRUE, i + 1)
         ELSE ScanPassFirstOnly(state, cloned_resource, done_process, found, i + 1)

RECURSIVE ScanPass(_, _, _, _, _)
ScanPass(state, cloned_resource, done_process, found, i) ==
    IF i >= NumProcesses
    THEN [cloned_resource |-> cloned_resource, done_process |-> done_process,
          found |-> found]
    ELSE IF ~done_process[i] /\ Eligible(state, cloned_resource, i)
         THEN ScanPass(state,
                       [j \in Res |-> cloned_resource[j] + state.allocated[i][j]],
                       [done_process EXCEPT ![i] = TRUE], TRUE, i + 1)
         ELSE ScanPass(state, cloned_resource, done_process, found, i + 1)

RECURSIVE Passes(_, _, _, _)
Passes(state, cloned_resource, done_process, left) ==
    IF left = 0
    THEN done_process
    ELSE LET r == ScanPass(state, cloned_resource, done_process, FALSE, 0)
         IN  IF ~r.found
             THEN r.done_process
             ELSE Passes(state, r.cloned_resource, r.done_process, left - 1)

safe_check(state) ==
    LET done_process == Passes(state, state.available,
                               [i \in Procs |-> FALSE], NumProcesses)
    IN  \A i \in Procs : done_process[i]

\* ------------------------------------------------------ request_resource
ExceedsNeed(state, process_id, req) ==
    \E j \in Res : req[j] > state.need[process_id][j]

ExceedsAvailable(state, process_id, req) ==
    \E j \in Res : req[j] > state.available[j]

\* a tentative grant that forgets to lower need
TentativeGrantKeepsNeed(state, process_id, req) ==
    [state EXCEPT
        !.available = [j \in Res |-> state.available[j] - req[j]],
        !.allocated[process_id] =
            [j \in Res |-> state.allocated[process_id][j] + req[j]]]

\* a tentative grant that books the units on process 0 whoever asked
TentativeGrantWrongRow(state, process_id, req) ==
    [state EXCEPT
        !.available = [j \in Res |-> state.available[j] - req[j]],
        !.allocated[0] = [j \in Res |-> state.allocated[0][j] + req[j]],
        !.need[0] = [j \in Res |-> state.need[0][j] - req[j]]]

TentativeGrant(state, process_id, req) ==
    [state EXCEPT
        !.available = [j \in Res |-> state.available[j] - req[j]],
        !.allocated[process_id] =
            [j \in Res |-> state.allocated[process_id][j] + req[j]],
        !.need[process_id] =
            [j \in Res |-> state.need[process_id][j] - req[j]]]

\* a rollback that forgets to give the units back to available
RollbackKeepsAvailable(state, process_id, req) ==
    [state EXCEPT
        !.allocated[process_id] =
            [j \in Res |-> state.allocated[process_id][j] - req[j]],
        !.need[process_id] =
            [j \in Res |-> state.need[process_id][j] + req[j]]]

\* a rollback that forgets to restore need
RollbackKeepsNeed(state, process_id, req) ==
    [state EXCEPT
        !.available = [j \in Res |-> state.available[j] + req[j]],
        !.allocated[process_id] =
            [j \in Res |-> state.allocated[process_id][j] - req[j]]]

\* a rollback that restores the rows of process 0 whoever asked
RollbackWrongRow(state, process_id, req) ==
    [state EXCEPT
        !.available = [j \in Res |-> state.available[j] + req[j]],
        !.allocated[0] = [j \in Res |-> state.allocated[0][j] - req[j]],
        !.need[0] = [j \in Res |-> state.need[0][j] + req[j]]]

Rollback(state, process_id, req) ==
    [state EXCEPT
        !.available = [j \in Res |-> state.available[j] + req[j]],
        !.allocated[process_id] =
            [j \in Res |-> state.allocated[process_id][j] - req[j]],
        !.need[process_id] =
            [j \in Res |-> state.need[process_id][j] + req[j]]]

\* ------------------------------------------------------ release_resource
\* a release that zeroes allocated without returning it to available
release_resource_leak(state, process_id) ==
    [state EXCEPT
        !.allocated[process_id] = ZeroVec,
        !.need[process_id] = state.max[process_id],
        !.completed_process[process_id] = TRUE]

\* a release that forgets to mark the process completed
release_resource_unmarked(state, process_id) ==
    [state EXCEPT
        !.available =
            [j \in Res |-> state.available[j] + state.allocated[process_id][j]],
        !.allocated[process_id] = ZeroVec,
        !.need[process_id] = state.max[process_id]]

\* a release that leaves need at zero instead of resetting it to max
release_resource_keeps_need(state, process_id) ==
    [state EXCEPT
        !.available =
            [j \in Res |-> state.available[j] + state.allocated[process_id][j]],
        !.allocated[process_id] = ZeroVec,
        !.completed_process[process_id] = TRUE]

release_resource(state, process_id) ==
    [state EXCEPT
        !.available =
            [j \in Res |-> state.available[j] + state.allocated[process_id][j]],
        !.allocated[process_id] = ZeroVec,
        !.need[process_id] = state.max[process_id],
        !.completed_process[process_id] = TRUE]

\* ------------------------------------------------------------ read_input
read_input ==
    { [available |-> av, max |-> mx, allocated |-> al,
       need |-> [i \in Procs |-> [j \in Res |-> mx[i][j] - al[i][j]]],
       completed_process |-> [i \in Procs |-> FALSE]] :
        <<av, mx, al>> \in
            { t \in Vectors \X [Procs -> Vectors] \X [Procs -> Vectors] :
                \A i \in Procs : \A j \in Res : t[3][i][j] <= t[2][i][j] } }

Init ==
    /\ system_state \in read_input
    /\ input = system_state
    /\ lock = {}
    /\ pc = [p \in Procs |-> "loop"]
    /\ request = [p \in Procs |-> ZeroVec]
    /\ granted = [p \in Procs |-> FALSE]
    /\ entry = system_state
    /\ main_pc = "join"

\* --------------------------------------------------------- process_thread
\* a loop test that never looks at completed_process
LoopTestForever(p) ==
    /\ pc[p] = "loop"
    /\ lock = {}
    /\ pc' = [pc EXCEPT ![p] = "gen"]
    /\ UNCHANGED <<system_state, input, lock, request, granted, entry, main_pc>>

\* line 80: while !system_state.lock().unwrap().completed_process[process_id]
LoopTest(p) ==
    /\ pc[p] = "loop"
    /\ lock = {}
    /\ pc' = [pc EXCEPT ![p] =
                IF system_state.completed_process[p] THEN "done" ELSE "gen"]
    /\ UNCHANGED <<system_state, input, lock, request, granted, entry, main_pc>>

\* lines 81-87: request[j] = random.gen_range(0..=need[process_id][j])
Generate(p) ==
    /\ pc[p] = "gen"
    /\ lock = {}
    /\ \E req \in Vectors :
        /\ \A j \in Res : req[j] <= system_state.need[p][j]
        /\ request' = [request EXCEPT ![p] = req]
    /\ pc' = [pc EXCEPT ![p] = "lock"]
    /\ UNCHANGED <<system_state, input, lock, granted, entry, main_pc>>

\* a caller other than the simulator: any request vector
GenerateAny(p) ==
    /\ pc[p] = "gen"
    /\ lock = {}
    /\ \E req \in Vectors : request' = [request EXCEPT ![p] = req]
    /\ pc' = [pc EXCEPT ![p] = "lock"]
    /\ UNCHANGED <<system_state, input, lock, granted, entry, main_pc>>

\* a lock() that does not wait for the guard to be dropped
AcquireNoWait(p) ==
    /\ pc[p] = "lock"
    /\ lock' = lock \cup {p}
    /\ entry' = system_state
    /\ pc' = [pc EXCEPT ![p] = "req"]
    /\ UNCHANGED <<system_state, input, request, granted, main_pc>>

\* line 89: let mut state = system_state.lock().unwrap()
Acquire(p) ==
    /\ pc[p] = "lock"
    /\ lock = {}
    /\ lock' = lock \cup {p}
    /\ entry' = system_state
    /\ pc' = [pc EXCEPT ![p] = "req"]
    /\ UNCHANGED <<system_state, input, request, granted, main_pc>>

\* a request that tests only need, not available, before granting
RequestNoAvailableTest(p) ==
    /\ pc[p] = "req"
    /\ IF ExceedsNeed(system_state, p, request[p])
       THEN /\ granted' = [granted EXCEPT ![p] = FALSE]
            /\ pc' = [pc EXCEPT ![p] = "drop"]
            /\ UNCHANGED system_state
       ELSE /\ system_state' = TentativeGrant(system_state, p, request[p])
            /\ pc' = [pc EXCEPT ![p] = "check"]
            /\ UNCHANGED granted
    /\ UNCHANGED <<input, lock, request, entry, main_pc>>

\* lines 44-54: the precondition test, then the tentative grant
Request(p) ==
    /\ pc[p] = "req"
    /\ IF ExceedsNeed(system_state, p, request[p])
          \/ ExceedsAvailable(system_state, p, request[p])
       THEN /\ granted' = [granted EXCEPT ![p] = FALSE]
            /\ pc' = [pc EXCEPT ![p] = "drop"]
            /\ UNCHANGED system_state
       ELSE /\ system_state' = TentativeGrant(system_state, p, request[p])
            /\ pc' = [pc EXCEPT ![p] = "check"]
            /\ UNCHANGED granted
    /\ UNCHANGED <<input, lock, request, entry, main_pc>>

\* a check that commits whatever safe_check says
CheckCommitsAlways(p) ==
    /\ pc[p] = "check"
    /\ granted' = [granted EXCEPT ![p] = TRUE]
    /\ pc' = [pc EXCEPT ![p] = "granted"]
    /\ UNCHANGED <<system_state, input, lock, request, entry, main_pc>>

\* a check with its test inverted: commits when safe_check fails
CheckInverted(p) ==
    /\ pc[p] = "check"
    /\ IF ~safe_check(system_state)
       THEN /\ granted' = [granted EXCEPT ![p] = TRUE]
            /\ pc' = [pc EXCEPT ![p] = "granted"]
            /\ UNCHANGED system_state
       ELSE /\ system_state' = Rollback(system_state, p, request[p])
            /\ granted' = [granted EXCEPT ![p] = FALSE]
            /\ pc' = [pc EXCEPT ![p] = "drop"]
    /\ UNCHANGED <<input, lock, request, entry, main_pc>>

\* lines 56-65: commit if safe_check, roll back otherwise
Check(p) ==
    /\ pc[p] = "check"
    /\ IF safe_check(system_state)
       THEN /\ granted' = [granted EXCEPT ![p] = TRUE]
            /\ pc' = [pc EXCEPT ![p] = "granted"]
            /\ UNCHANGED system_state
       ELSE /\ system_state' = Rollback(system_state, p, request[p])
            /\ granted' = [granted EXCEPT ![p] = FALSE]
            /\ pc' = [pc EXCEPT ![p] = "drop"]
    /\ UNCHANGED <<input, lock, request, entry, main_pc>>

\* a grant handler that releases without looking at need
GrantedReleasesAlways(p) ==
    /\ pc[p] = "granted"
    /\ system_state' = release_resource(system_state, p)
    /\ pc' = [pc EXCEPT ![p] = "drop"]
    /\ UNCHANGED <<input, lock, request, granted, entry, main_pc>>

\* lines 91-111: on a grant, release when need is all zero
Granted(p) ==
    /\ pc[p] = "granted"
    /\ IF \A j \in Res : system_state.need[p][j] = 0
       THEN system_state' = release_resource(system_state, p)
       ELSE UNCHANGED system_state
    /\ pc' = [pc EXCEPT ![p] = "drop"]
    /\ UNCHANGED <<input, lock, request, granted, entry, main_pc>>

\* lines 117-129: snapshot shown, drop(state), sleep
DropGuard(p) ==
    /\ pc[p] = "drop"
    /\ lock' = lock \ {p}
    /\ pc' = [pc EXCEPT ![p] = "loop"]
    /\ request' = [request EXCEPT ![p] = ZeroVec]
    /\ granted' = [granted EXCEPT ![p] = FALSE]
    /\ entry' = system_state
    /\ UNCHANGED <<system_state, input, main_pc>>

\* a main that reports as soon as one thread has ended
MainJoinAny ==
    /\ main_pc = "join"
    /\ \E p \in Procs : pc[p] = "done"
    /\ main_pc' = "end"
    /\ UNCHANGED <<system_state, input, lock, pc, request, granted, entry>>

\* main, lines 200-203: join every thread, then report
MainJoin ==
    /\ main_pc = "join"
    /\ \A p \in Procs : pc[p] = "done"
    /\ main_pc' = "end"
    /\ UNCHANGED <<system_state, input, lock, pc, request, granted, entry>>

Next ==
    \/ \E p \in Procs : LoopTest(p)
    \/ \E p \in Procs : Generate(p)
    \/ \E p \in Procs : Acquire(p)
    \/ \E p \in Procs : Request(p)
    \/ \E p \in Procs : Check(p)
    \/ \E p \in Procs : Granted(p)
    \/ \E p \in Procs : DropGuard(p)
    \/ MainJoin

Spec == Init /\ [][Next]_vars

\* one step of thread p
Thread(p) ==
    \/ LoopTest(p) \/ Generate(p) \/ Acquire(p) \/ Request(p)
    \/ Check(p) \/ Granted(p) \/ DropGuard(p)

\* gen_range(0..=n) returning n in every component
GenerateWholeNeed(p) ==
    /\ Generate(p)
    /\ request'[p] = system_state.need[p]

\* Fair scheduling and fair sampling: a thread that can step again and again
\* does step (each thread sleeps 250 ms after dropping the guard, so a
\* waiting thread gets the Mutex), and a thread that samples again and
\* again draws its whole need now and then (gen_range is uniform).
FairSpec ==
    /\ Spec
    /\ \A p \in Procs : SF_vars(Thread(p)) /\ SF_vars(GenerateWholeNeed(p))
    /\ WF_vars(MainJoin)

\* the arbiter driven by a caller that submits any request vector
NextAny ==
    \/ \E p \in Procs : LoopTest(p)
    \/ \E p \in Procs : GenerateAny(p)
    \/ \E p \in Procs : Acquire(p)
    \/ \E p \in Procs : Request(p)
    \/ \E p \in Procs : Check(p)
    \/ \E p \in Procs : Granted(p)
    \/ \E p \in Procs : DropGuard(p)
    \/ MainJoin

ArbiterSpec == Init /\ [][NextAny]_vars

\* ------------------------------------------------------------ vocabulary
RECURSIVE SumAllocated(_, _, _)
SumAllocated(state, j, n) ==
    IF n = 0 THEN 0 ELSE state.allocated[n - 1][j] + SumAllocated(state, j, n - 1)

\* units of resource j in the system, fixed by the input
total(j) == input.available[j] + SumAllocated(input, j, NumProcesses)

InCall(p) == pc[p] \in {"req", "check", "granted", "drop"}

\* request_resource has returned false to p / true to p
ReturnedFalse(p) == pc[p] = "drop" /\ ~granted[p]
ReturnedTrue(p) == pc[p] = "granted"

\* request_resource would return true for req in this state
WouldGrant(state, p, req) ==
    /\ ~ExceedsNeed(state, p, req)
    /\ ~ExceedsAvailable(state, p, req)
    /\ safe_check(TentativeGrant(state, p, req))

SomeoneActive == \E p \in Procs : ~system_state.completed_process[p]

\* ---------------------------------------------------------------- claims

\* C1: conservation -- for every resource type, available plus the units
\* allocated over all processes equals the total fixed by the input, in
\* every state of every interleaving (before and after each request,
\* granted or denied, and each release).
C1_Conservation ==
    \A j \in Res :
        system_state.available[j] + SumAllocated(system_state, j, NumProcesses)
            = total(j)

\* C1 witness: one process has been granted units it did not hold in the
\* input, and another has just been denied a non-zero request whose
\* tentative grant was rolled back.
C1_Witness ==
    \E p, q \in Procs :
        /\ p # q
        /\ system_state.allocated[p] # input.allocated[p]
        /\ ReturnedFalse(q) /\ request[q] # ZeroVec
        /\ ~ExceedsAvailable(entry, q, request[q])

\* C2: no unsafe grant -- whenever request_resource has returned true, for
\* any process and any request vector, safe_check holds on the ledger.
C2_NoUnsafeGrant ==
    \A p \in Procs : ReturnedTrue(p) => safe_check(system_state)

\* C2 witness: a non-zero request was granted out of a ledger in which
\* another process holds units.
C2_Witness ==
    \E p, q \in Procs :
        /\ p # q
        /\ ReturnedTrue(p) /\ request[p] # ZeroVec
        /\ system_state.allocated[q] # ZeroVec

\* C3 as claimed: between operations, while some process is not completed,
\* some non-completed process has a non-zero request within its need that
\* request_resource would grant.
C3_Original ==
    (lock = {} /\ SomeoneActive) =>
        \E p \in Procs :
            /\ ~system_state.completed_process[p]
            /\ \E req \in Vectors :
                /\ req # ZeroVec
                /\ WouldGrant(system_state, p, req)

\* C3 (amended): when the input ledger is safe, between operations, while
\* some process is not completed, some non-completed process would be
\* granted its whole remaining need (which completes it); that request is
\* non-zero unless the process's need was already all zero in the input.
C3_NeverStuck ==
    (lock = {} /\ SomeoneActive /\ safe_check(input)) =>
        \E p \in Procs :
            /\ ~system_state.completed_process[p]
            /\ WouldGrant(system_state, p, system_state.need[p])
            /\ system_state.need[p] = ZeroVec => input.need[p] = ZeroVec

\* C3 witness: between operations of a run from a safe input, a process that
\* held units in the input has completed and another still has need left.
C3_Witness ==
    \E p, q \in Procs :
        /\ lock = {} /\ safe_check(input)
        /\ system_state.completed_process[p]
        /\ ~system_state.completed_process[q]
        /\ system_state.need[q] # ZeroVec
        /\ input.allocated[p] # ZeroVec

\* C4: rollback exactness -- whenever request_resource has returned false to
\* p, available, allocated[p] and need[p] are what they were on entry.
C4_RollbackExact ==
    \A p \in Procs :
        ReturnedFalse(p) =>
            /\ system_state.available = entry.available
            /\ system_state.allocated[p] = entry.allocated[p]
            /\ system_state.need[p] = entry.need[p]

\* C4 witness: a non-zero request that passed both precondition tests in a
\* safe ledger was found unsafe and has been rolled back.
C4_Witness ==
    \E p \in Procs :
        /\ ReturnedFalse(p) /\ request[p] # ZeroVec
        /\ ~ExceedsNeed(entry, p, request[p])
        /\ ~ExceedsAvailable(entry, p, request[p])
        /\ safe_check(entry)

\* C5: precondition rejection -- a call whose request exceeds need[p] or
\* available in some component returns false at once: the ledger is not
\* changed by that step and the call never reaches safe_check.
C5_PreconditionRejects ==
    [][\A p \in Procs :
        (/\ pc[p] = "req"
         /\ pc'[p] # pc[p]
         /\ \/ ExceedsNeed(system_state, p, request[p])
            \/ ExceedsAvailable(system_state, p, request[p]))
        => (/\ pc'[p] = "drop"
            /\ ~granted'[p]
            /\ system_state' = system_state)]_vars

\* C5 witness: a request that exceeds need but not available was rejected.
C5_Witness ==
    \E p \in Procs :
        /\ ReturnedFalse(p)
        /\ ExceedsNeed(entry, p, request[p])
        /\ ~ExceedsAvailable(entry, p, request[p])
        /\ system_state = entry

\* C6 as claimed: after request_resource returns true to p, need[p] is
\* strictly smaller in some component and larger in none.
C6_Original ==
    \A p \in Procs :
        ReturnedTrue(p) =>
            /\ \E j \in Res : system_state.need[p][j] < entry.need[p][j]
            /\ \A j \in Res : system_state.need[p][j] <= entry.need[p][j]

\* C6 (amended): after request_resource returns true to p, need[p] is the
\* need on entry minus the request in every component, so it is larger in
\* none, and it is strictly smaller in some component exactly when the
\* request is not all zero (a granted all-zero request leaves need as it was).
C6_MonotonicNeed ==
    \A p \in Procs :
        ReturnedTrue(p) =>
            /\ \A j \in Res :
                /\ system_state.need[p][j] = entry.need[p][j] - request[p][j]
                /\ system_state.need[p][j] <= entry.need[p][j]
            /\ (\E j \in Res : system_state.need[p][j] < entry.need[p][j])
                    <=> request[p] # ZeroVec

\* C6 witness: a non-zero request that leaves part of the need was granted.
C6_Witness ==
    \E p \in Procs :
        /\ ReturnedTrue(p) /\ request[p] # ZeroVec
        /\ system_state.need[p] # ZeroVec

AllCompleted == \A p \in Procs : system_state.completed_process[p]

\* C7 as claimed: under fair scheduling every process is eventually
\* completed.
C7_Original == <>AllCompleted

\* C7 (amended): when the input ledger is safe, under fair scheduling of the
\* threads and fair sampling of the requests, every process is eventually
\* completed.
C7_Termination == safe_check(input) => <>AllCompleted

\* C7 witness: every process, each with a non-zero max, has completed and
\* main has joined the threads, from an input in which some process's whole
\* need did not fit in available.
C7_Witness ==
    /\ AllCompleted
    /\ \A p \in Procs : system_state.max[p] # ZeroVec /\ pc[p] = "done"
    /\ \E p \in Procs : input.need[p] # ZeroVec /\ ~(\A j \in Res : input.need[p][j] <= input.available[j])
    /\ main_pc = "end"

\* the invariants of the ledger (section 3 of the specification)
LedgerInvariants ==
    /\ \A j \in Res : system_state.available[j] >= 0
    /\ \A p \in Procs : \A j \in Res :
        /\ system_state.allocated[p][j] >= 0
        /\ system_state.need[p][j] >= 0
    /\ C1_Conservation
    /\ \A p \in Procs :
        system_state.completed_process[p] =>
            /\ system_state.allocated[p] = ZeroVec
            /\ system_state.need[p] = system_state.max[p]

\* C8: atomicity under the lock -- at most one thread holds the guard, the
\* threads inside the locked region are exactly the holders, nothing but p's
\* own step happens while p's tentative grant is in the ledger, and
\* whenever the lock is free the ledger satisfies its invariants.
C8_Atomicity ==
    /\ [](/\ Cardinality(lock) <= 1
          /\ \A p \in Procs : InCall(p) <=> p \in lock
          /\ lock = {} => LedgerInvariants)
    /\ [][\A p \in Procs :
            pc[p] = "check" =>
                \A q \in Procs \ {p} : pc'[q] = pc[q] /\ request'[q] = request[q]]_vars

\* C8 witness: p's tentative grant is in the ledger and is unsafe while
\* another thread waits at its lock() call.
C8_Witness ==
    \E p, q \in Procs :
        /\ p # q
        /\ pc[p] = "check" /\ ~safe_check(system_state)
        /\ safe_check(entry)
        /\ pc[q] = "lock"

\* C9: ledger value invariants -- between operations, available, allocated
\* and need are non-negative, and need = max - allocated for every process
\* that is not completed.
C9_LedgerValues ==
    lock = {} =>
        /\ \A j \in Res : system_state.available[j] >= 0
        /\ \A p \in Procs : \A j \in Res :
            /\ system_state.allocated[p][j] >= 0
            /\ system_state.need[p][j] >= 0
            /\ ~system_state.completed_process[p] =>
                  system_state.need[p][j]
                      = system_state.max[p][j] - system_state.allocated[p][j]

\* C9 witness: between operations, a process that is not completed holds
\* units it was granted during the run.
C9_Witness ==
    \E p \in Procs :
        /\ lock = {}
        /\ ~system_state.completed_process[p]
        /\ system_state.allocated[p] # input.allocated[p]

\* C10: completion is terminal -- completed_process[p] never goes back to
\* false, a completed process holds nothing and has need = max, and its
\* thread is past its last request (it only drops the guard, tests the loop
\* condition and ends).
C10_CompletionTerminal ==
    /\ [](\A p \in Procs :
            system_state.completed_process[p] =>
                /\ system_state.allocated[p] = ZeroVec
                /\ system_state.need[p] = system_state.max[p]
                /\ pc[p] \in {"drop", "loop", "done"})
    /\ [][\A p \in Procs :
            system_state.completed_process[p] =>
                system_state'.completed_process[p]]_vars

\* C10 witness: a process with a non-zero max has completed and its thread
\* has ended while another thread is inside request_resource.
C10_Witness ==
    \E p, q \in Procs :
        /\ system_state.completed_process[p] /\ pc[p] = "done"
        /\ system_state.max[p] # ZeroVec
        /\ pc[q] = "check"

\* request_resource has returned to p and p has not yet acted on the result
Returned(p) == ReturnedTrue(p) \/ ReturnedFalse(p)

\* C11 as claimed: an all-zero request submitted by a simulator is always
\* granted and leaves the ledger as it was on entry.
C11_Original ==
    \A p \in Procs :
        (Returned(p) /\ request[p] = ZeroVec) =>
            /\ ReturnedTrue(p)
            /\ system_state = entry

\* C11 (amended): an all-zero request leaves available, allocated and need
\* unchanged whatever the answer; it is granted whenever the ledger it is
\* submitted in is safe, which is always the case when the input ledger is
\* safe, and it is denied only in a ledger that safe_check reports unsafe.
C11_ZeroRequest ==
    \A p \in Procs :
        (Returned(p) /\ request[p] = ZeroVec) =>
            /\ system_state = entry
            /\ ReturnedTrue(p) <=> safe_check(entry)
            /\ safe_check(input) => ReturnedTrue(p)

\* C11 witness: an all-zero request has been granted to a process that still
\* has need left, in a ledger where another process holds granted units.
C11_Witness ==
    \E p, q \in Procs :
        /\ p # q
        /\ ReturnedTrue(p) /\ request[p] = ZeroVec
        /\ system_state.need[p] # ZeroVec
        /\ system_state.allocated[q] # input.allocated[q]

\* the ledger as request_resource left it when it returned true to p
AtReturn(p) == TentativeGrant(entry, p, request[p])

\* p is past lines 95-111 of an iteration whose request was granted
AfterGranted(p) == pc[p] = "drop" /\ granted[p]

\* C13: release effect -- when the granted request left need[p] all zero,
\* release_resource has added the old allocated[p] to the old available,
\* zeroed allocated[p], reset need[p] to max[p] and set completed_process[p];
\* a process granted its whole remaining need ends the step with every unit
\* it held back in available.
C13_ReleaseEffect ==
    \A p \in Procs :
        AfterGranted(p) =>
            /\ AtReturn(p).need[p] = ZeroVec =>
                /\ \A j \in Res :
                    /\ system_state.available[j]
                         = AtReturn(p).available[j] + AtReturn(p).allocated[p][j]
                    /\ system_state.allocated[p][j] = 0
                    /\ system_state.need[p][j] = system_state.max[p][j]
                /\ system_state.completed_process[p]
            /\ request[p] = entry.need[p] =>
                /\ system_state.completed_process[p]
                /\ \A j \in Res :
                    system_state.available[j]
                        = entry.available[j] + entry.allocated[p][j]

\* C13 witness: a process that held units on entry was granted the rest of
\* its non-zero need and has released.
C13_Witness ==
    \E p \in Procs :
        /\ AfterGranted(p)
        /\ request[p] # ZeroVec /\ request[p] = entry.need[p]
        /\ entry.allocated[p] # ZeroVec
        /\ system_state.completed_process[p]

\* the processes that take part in the run: not completed
Active(state) == { i \in Procs : ~state.completed_process[i] }

\* some order runs every process of remaining to completion, starting from
\* work: the one whose turn it is has need <= work, and gives back allocated
RECURSIVE CanAllFinish(_, _, _)
CanAllFinish(state, work, remaining) ==
    \/ remaining = {}
    \/ \E i \in remaining :
        /\ \A j \in Res : state.need[i][j] <= work[j]
        /\ CanAllFinish(state,
                        [j \in Res |-> work[j] + state.allocated[i][j]],
                        remaining \ {i})

\* the glossary's safe state, completed processes counted as finished
SafeState(state) == CanAllFinish(state, state.available, Active(state))

\* C14: oracle correctness -- in every ledger the simulation reaches (the
\* tentative grants included), safe_check is true exactly when some order
\* runs all non-completed processes to completion; completed processes,
\* left with need = max, never make the answer false.
C14_OracleCorrect == safe_check(system_state) <=> SafeState(system_state)

\* C14 witness: safe_check answers true on a ledger in which a completed
\* process has a need (its max) that does not fit in available while
\* another process is still active.
C14_Witness ==
    \E p, q \in Procs :
        /\ system_state.completed_process[p]
        /\ ~system_state.completed_process[q]
        /\ \E j \in Res : system_state.need[p][j] > system_state.available[j]
        /\ safe_check(system_state)

\* the working state of safe_check on the current ledger after n passes
RECURSIVE AfterPasses(_)
AfterPasses(n) ==
    IF n = 0
    THEN [cloned_resource |-> system_state.available,
          done_process |-> [i \in Procs |-> FALSE], found |-> FALSE]
    ELSE LET before == AfterPasses(n - 1)
         IN  ScanPass(system_state, before.cloned_resource,
                      before.done_process, FALSE, 0)

Marked(pass) == { i \in Procs : pass.done_process[i] }

\* the processes pass n marks
NewlyMarked(n) == Marked(AfterPasses(n)) \ Marked(AfterPasses(n - 1))

\* allocation of resource j held by the processes of set s with index < n
RECURSIVE SumOver(_, _, _, _)
SumOver(state, j, s, n) ==
    IF n = 0 THEN 0
    ELSE (IF (n - 1) \in s THEN state.allocated[n - 1][j] ELSE 0)
         + SumOver(state, j, s, n - 1)

\* C15 as claimed: each pass of safe_check marks at most one process, the
\* eligible not-yet-finished one of lowest index.
C15_Original ==
    \A n \in 1 .. NumProcesses :
        /\ Cardinality(NewlyMarked(n)) <= 1
        /\ \A i \in NewlyMarked(n) :
            \A k \in 0 .. (i - 1) :
                k \in Marked(AfterPasses(n - 1))
                \/ ~Eligible(system_state, AfterPasses(n - 1).cloned_resource, k)

\* C15 (amended): each pass of safe_check scans the processes in index order
\* and marks every not-yet-finished one that is eligible when the scan
\* reaches it, adding its allocated row to work at once: process i is marked
\* by the pass exactly when it was not finished and its need fits in the
\* work of the pass's start plus the rows of the processes of lower index
\* marked by the same pass. So a pass may finish several processes, the
\* lowest-index eligible one first, and the outcome is deterministic.
C15_PassStructure ==
    \A n \in 1 .. NumProcesses :
        LET before == AfterPasses(n - 1)
            after == AfterPasses(n)
        IN  /\ Marked(before) \subseteq Marked(after)
            /\ \A i \in Procs :
                i \in NewlyMarked(n) <=>
                    /\ i \notin Marked(before)
                    /\ \A j \in Res :
                        system_state.need[i][j]
                            <= before.cloned_resource[j]
                               + SumOver(system_state, j, NewlyMarked(n), i)
            /\ \A j \in Res :
                after.cloned_resource[j]
                    = before.cloned_resource[j]
                      + SumOver(system_state, j, NewlyMarked(n), NumProcesses)
            /\ after.found <=> NewlyMarked(n) # {}

\* C15 witness: request_resource is about to run safe_check on a tentative
\* grant, and the first pass marks two processes, the second of which is
\* eligible only because the first one's allocation was added to work.
C15_Witness ==
    \E i, k \in Procs :
        /\ \E p \in Procs : pc[p] = "check" /\ request[p] # ZeroVec
        /\ i < k
        /\ {i, k} \subseteq NewlyMarked(1)
        /\ ~Eligible(system_state, system_state.available, k)

\* C16: release ordering -- completed_process[p] is set only by p's own step
\* right after its granted request, in a state where need[p] is all zero and
\* p is not completed, with the guard held before and after; so between
\* operations a process that is not completed has an all-zero need only if
\* it had it in the input and was granted nothing since.
C16_ReleaseOrdering ==
    /\ [](\A p \in Procs :
            (/\ lock = {}
             /\ ~system_state.completed_process[p]
             /\ system_state.need[p] = ZeroVec)
            => (/\ input.need[p] = ZeroVec
                /\ system_state.allocated[p] = input.allocated[p]))
    /\ [][\A p \in Procs :
            (~system_state.completed_process[p]
             /\ system_state'.completed_process[p])
            => (/\ pc[p] = "granted" /\ granted[p]
                /\ system_state.need[p] = ZeroVec
                /\ system_state = AtReturn(p)
                /\ lock = {p} /\ lock' = {p})]_vars

\* C16 witness: a process granted the rest of its non-zero need has released
\* and still holds the guard while another thread waits for it.
C16_Witness ==
    \E p, q \in Procs :
        /\ p # q
        /\ AfterGranted(p) /\ request[p] # ZeroVec
        /\ system_state.completed_process[p]
        /\ p \in lock
        /\ pc[q] = "lock"

\* C17: frame of the arbiter -- from the entry of request_resource(p) to the
\* end of p's locked region (release_resource included), max is what it was,
\* and allocated[q], need[q] and completed_process[q] of every other process
\* q are what they were; until request_resource has returned, and after a
\* false return, completed_process is unchanged altogether.
C17_Frame ==
    /\ system_state.max = input.max
    /\ \A p \in Procs :
        InCall(p) =>
            /\ system_state.max = entry.max
            /\ \A q \in Procs \ {p} :
                /\ system_state.allocated[q] = entry.allocated[q]
                /\ system_state.need[q] = entry.need[q]
                /\ system_state.completed_process[q] = entry.completed_process[q]
            /\ (pc[p] \in {"req", "check", "granted"} \/ ReturnedFalse(p)) =>
                system_state.completed_process = entry.completed_process

\* C17 witness: p's non-zero request passed the precondition tests and was
\* rolled back while another process holds units and has need left.
C17_Witness ==
    \E p, q \in Procs :
        /\ p # q
        /\ pc[p] = "drop"
        /\ request[p] # ZeroVec
        /\ ~ExceedsNeed(entry, p, request[p])
        /\ ~ExceedsAvailable(entry, p, request[p])
        /\ ~granted[p]
        /\ system_state.allocated[q] # ZeroVec
        /\ system_state.need[q] # ZeroVec

\* C18: every lock-free state is safe -- when the input ledger is safe,
\* safe_check holds on the ledger whenever no thread holds the guard; a
\* release leaves the ledger safe although the completed process keeps
\* need = max.
C18_LockFreeSafe ==
    (lock = {} /\ safe_check(input)) => safe_check(system_state)

\* C18 witness: between operations of a run from a safe input, a process
\* with a non-zero max has completed, its need (= max) does not fit in
\* available, and another process holds units and has need left.
C18_Witness ==
    \E p, q \in Procs :
        /\ lock = {} /\ safe_check(input)
        /\ system_state.completed_process[p]
        /\ \E j \in Res : system_state.need[p][j] > system_state.available[j]
        /\ ~system_state.completed_process[q]
        /\ system_state.allocated[q] # ZeroVec
        /\ system_state.need[q] # ZeroVec

\* C19: the stale snapshot is harmless -- from the moment a simulator has
\* sampled its request until request_resource tests it, the request lies
\* between 0 and need[p] in every component and p is not completed,
\* whatever the other threads did in between; so no simulator request is
\* rejected for exceeding need.
C19_SnapshotStillValid ==
    \A p \in Procs :
        /\ pc[p] \in {"lock", "req"} =>
            /\ \A j \in Res :
                /\ 0 <= request[p][j]
                /\ request[p][j] <= system_state.need[p][j]
            /\ ~system_state.completed_process[p]
        /\ pc[p] = "drop" => ~ExceedsNeed(entry, p, request[p])

\* C19 witness: p has sampled a non-zero request and waits for the guard
\* while another thread, inside its locked region, has just been granted
\* units; and p's request no longer fits in available.
C19_Witness ==
    \E p, q \in Procs :
        /\ p # q
        /\ pc[p] = "lock" /\ request[p] # ZeroVec
        /\ pc[q] = "granted" /\ request[q] # ZeroVec
        /\ ~ExceedsAvailable(entry, p, request[p])
        /\ ExceedsAvailable(system_state, p, request[p])

\* C20: final state -- whenever every process is completed, nothing is
\* allocated and available equals the input's total for every resource;
\* and main reports completion only after every thread has ended, in
\* such a state.
C20_FinalState ==
    /\ AllCompleted =>
        /\ \A p \in Procs : system_state.allocated[p] = ZeroVec
        /\ \A j \in Res : system_state.available[j] = total(j)
    /\ main_pc = "end" =>
        /\ AllCompleted
        /\ \A p \in Procs : pc[p] = "done"
        /\ lock = {}

\* C20 witness: main has reported, after a run in which every process held
\* units in the input or was granted some, and the pool is not empty.
C20_Witness ==
    /\ main_pc = "end"
    /\ \A p \in Procs : system_state.max[p] # ZeroVec
    /\ \E p \in Procs : input.allocated[p] # ZeroVec
    /\ \E p \in Procs : input.need[p] # ZeroVec
    /\ \A j \in Res : total(j) > 0

====
